---- MODULE Spec2Model ----
(***************************************************************************)
(* Model of falafel's Configurator (src/falafel/src/configurator.ts):      *)
(* the three-source merge of defaults, saved snapshot and environment,     *)
(* the rollup-contract change flag, saveRuntimeConfig, and the JSON        *)
(* encoding of the snapshot (readConfigFile / writeConfigFile).            *)
(*                                                                         *)
(* JavaScript values are tagged tuples, so values of different types can   *)
(* be compared.  A JavaScript string is a sequence of one-character        *)
(* strings, a Buffer a sequence of bytes, a bigint its sequence of decimal *)
(* digits (most significant first), an object a function from keys.        *)
(***************************************************************************)
EXTENDS Integers, Sequences, FiniteSets, TLC

\* ------------------------------------------------------------------ bounds
\* Number of Configurator constructions (process starts) in a behaviour.
MaxRestarts == 2
\* Number of saveRuntimeConfig calls in a behaviour.
MaxSaves == 2

\* ------------------------------------------------------- JavaScript values
Undefined == <<"undefined">>
Null == <<"null">>
NaN == <<"NaN">>
Num(n) == <<"number", n>>
Str(s) == <<"string", s>>
Bool(b) == <<"boolean", b>>
Buf(bytes) == <<"Buffer", bytes>>
Big(digits) == <<"bigint", digits>>
Arr(seq) == <<"array", seq>>
Obj(f) == <<"object", f>>
Addr(bytes) == <<"EthAddress", bytes>>

Tag(v) == v[1]
Val(v) == v[2]

\* o.k : a missing key reads as undefined.
Get(o, k) == IF k \in DOMAIN o THEN o[k] ELSE Undefined

\* { ...a, ...b } : every own key of b, undefined-valued ones included, wins.
Spread(a, b) == [k \in (DOMAIN a) \cup (DOMAIN b) |-> IF k \in DOMAIN b THEN b[k] ELSE a[k]]

\* The object without key k (a rest pattern, or a key a file never had).
Without(o, k) == [x \in (DOMAIN o) \ {k} |-> o[x]]

\* JavaScript truthiness, as tested by `x ? a : b`.
Truthy(v) == v \notin {Undefined, Null, NaN, Num(0), Str(<<>>), Bool(FALSE)}

\* Object.fromEntries(Object.entries(o).filter(e => e[1] !== undefined))
DropUndefined(o) == [k \in {x \in DOMAIN o : o[x] # Undefined} |-> o[k]]

Range(s) == {s[i] : i \in 1..Len(s)}

\* ----------------------------------------------------------------- strings
DecChars == <<"0", "1", "2", "3", "4", "5", "6", "7", "8", "9">>
HexChars == <<"0", "1", "2", "3", "4", "5", "6", "7", "8", "9", "a", "b", "c", "d", "e", "f">>
UpperHexChars == <<"0", "1", "2", "3", "4", "5", "6", "7", "8", "9", "A", "B", "C", "D", "E", "F">>

DecCharSet == {DecChars[i] : i \in 1..10}
HexCharSet == {HexChars[i] : i \in 1..16} \cup {UpperHexChars[i] : i \in 1..16}
DecValues == [c \in DecCharSet |-> (CHOOSE i \in 1..10 : DecChars[i] = c) - 1]
HexValues == [c \in HexCharSet |-> (CHOOSE i \in 1..16 : HexChars[i] = c \/ UpperHexChars[i] = c) - 1]

IsDecChar(c) == c \in DecCharSet
IsHexChar(c) == c \in HexCharSet
DecVal(c) == DecValues[c]
HexVal(c) == HexValues[c]

AllDec(s) == \A i \in 1..Len(s) : IsDecChar(s[i])
AllHex(s) == \A i \in 1..Len(s) : IsHexChar(s[i])

\* n copies of the characters cs.
RECURSIVE Rep(_, _)
Rep(cs, n) == IF n = 0 THEN <<>> ELSE cs \o Rep(cs, n - 1)

\* The value of a string of decimal digits.
RECURSIVE DecNumber(_)
DecNumber(s) == IF s = <<>> THEN 0 ELSE 10 * DecNumber(SubSeq(s, 1, Len(s) - 1)) + DecVal(s[Len(s)])

\* The decimal digits of a natural number.
RECURSIVE DecDigits(_)
DecDigits(n) == IF n < 10 THEN <<n>> ELSE Append(DecDigits(n \div 10), n % 10)

\* Unary plus on a string, for the strings of unsigned decimal digits; any
\* other non-empty string used here is not numeric and converts to NaN.
ToNumber(s) == IF s = <<>> THEN Num(0) ELSE IF AllDec(s) THEN Num(DecNumber(s)) ELSE NaN

\* String.prototype.split(',')
RECURSIVE SplitComma(_)
SplitComma(s) ==
  IF \A i \in 1..Len(s) : s[i] # ","
  THEN <<s>>
  ELSE LET i == CHOOSE j \in 1..Len(s) : s[j] = "," /\ \A k \in 1..(j - 1) : s[k] # ","
       IN <<SubSeq(s, 1, i - 1)>> \o SplitComma(SubSeq(s, i + 1, Len(s)))

\* String.prototype.replace('0x', '') : removes the first occurrence.
Replace0x(s) ==
  IF \E i \in 1..(Len(s) - 1) : s[i] = "0" /\ s[i + 1] = "x"
  THEN LET i == CHOOSE j \in 1..(Len(s) - 1) :
                  /\ s[j] = "0" /\ s[j + 1] = "x"
                  /\ \A k \in 1..(j - 1) : ~(s[k] = "0" /\ s[k + 1] = "x")
       IN SubSeq(s, 1, i - 1) \o SubSeq(s, i + 2, Len(s))
  ELSE s

\* Buffer.from(s, 'hex') : decodes pairs of hex digits up to the first pair
\* that is not one; a trailing odd digit is dropped.
HexPairs(s) ==
  LET IsPair(i) == IsHexChar(s[2 * i - 1]) /\ IsHexChar(s[2 * i])
      n == Len(s) \div 2
  IN IF \A i \in 1..n : IsPair(i)
     THEN n
     ELSE (CHOOSE i \in 1..n : ~IsPair(i) /\ \A j \in 1..(i - 1) : IsPair(j)) - 1
HexDecode(s) == [i \in 1..HexPairs(s) |-> 16 * HexVal(s[2 * i - 1]) + HexVal(s[2 * i])]

\* buffer.toString('hex') : two lower-case digits per byte.
HexEncode(b) ==
  [i \in 1..(2 * Len(b)) |->
     IF i % 2 = 1 THEN HexChars[(b[(i + 1) \div 2] \div 16) + 1] ELSE HexChars[(b[i \div 2] % 16) + 1]]

\* Buffer.from(x, 'hex') throws for anything but a string.
BufferFromThrows(x) == Tag(x) # "string"
BufferFrom(x) == Buf(HexDecode(Val(x)))

\* ------------------------------------------------- EthAddress and bigint
\* @aztec/barretenberg/address is not among the sources: an address is its
\* bytes, its string form is "0x" and the hex digits, and fromString accepts
\* exactly the strings of 40 hex digits with an optional 0x prefix.
AddressBytes == 20

StripPrefix0x(s) ==
  IF Len(s) >= 2 /\ s[1] = "0" /\ s[2] \in {"x", "X"} THEN SubSeq(s, 3, Len(s)) ELSE s

IsAddress(s) == Len(StripPrefix0x(s)) = 2 * AddressBytes /\ AllHex(StripPrefix0x(s))

EthAddressFromStringThrows(x) == Tag(x) # "string" \/ ~IsAddress(Val(x))
EthAddressFromString(x) == Addr(HexDecode(StripPrefix0x(Val(x))))
EthAddressToString(a) == Str(<<"0", "x">> \o HexEncode(Val(a)))
EthAddressEquals(a, b) == Val(a) = Val(b)
\* a.map(EthAddress.fromString), a.map(x => x.toString()), a.map(x => +x)
MapFromStringThrows(a) ==
  Tag(a) # "array" \/ \E x \in Range(Val(a)) : EthAddressFromStringThrows(x)
MapFromString(a) == Arr([i \in 1..Len(Val(a)) |-> EthAddressFromString(Val(a)[i])])
MapToString(a) == Arr([i \in 1..Len(Val(a)) |-> EthAddressToString(Val(a)[i])])
MapToNumber(a) == Arr([i \in 1..Len(Val(a)) |-> ToNumber(Val(Val(a)[i]))])
EthAddressZERO == Addr(Rep(<<0>>, AddressBytes))

\* Leading zeros do not change the integer a digit string denotes.
RECURSIVE StripZeros(_)
StripZeros(d) == IF Len(d) > 1 /\ d[1] = 0 THEN StripZeros(Tail(d)) ELSE d

\* BigInt(x) : a string of decimal digits (the empty string is 0n), an
\* integer number or a boolean converts; undefined, null and NaN throw, and
\* so does a string that is not an integer literal.
BigIntThrows(x) ==
  CASE Tag(x) = "string" -> ~AllDec(Val(x))
    [] Tag(x) \in {"number", "boolean", "bigint"} -> FALSE
    [] OTHER -> TRUE

\* Mutant: the string read as a number first (`BigInt(+x)`), which keeps
\* about 16 significant digits.
BigIntViaNumber(x) ==
  IF Tag(x) = "string" /\ Val(x) # <<>>
  THEN LET d == StripZeros([i \in 1..Len(Val(x)) |-> DecVal(Val(x)[i])])
       IN Big([i \in 1..Len(d) |-> IF i <= 16 THEN d[i] ELSE 0])
  ELSE x

BigInt(x) ==
  CASE Tag(x) = "string" ->
         IF Val(x) = <<>> THEN Big(<<0>>) ELSE Big(StripZeros([i \in 1..Len(Val(x)) |-> DecVal(Val(x)[i])]))
    [] Tag(x) = "number" -> Big(DecDigits(Val(x)))
    [] Tag(x) = "boolean" -> IF Val(x) THEN Big(<<1>>) ELSE Big(<<0>>)
    [] OTHER -> x

DecChar(d) == DecChars[d + 1]
BigIntToString(b) == Str([i \in 1..Len(Val(b)) |-> DecChar(Val(b)[i])])

\* ------------------------------------------ bridge configs, privacy sets
\* @aztec/barretenberg/rollup_provider is not among the sources: the records
\* are opaque, and each encoder has the decoder as its inverse.
bridgeConfigToJson(b) == <<"BridgeConfigJson", Val(b)>>
bridgeConfigFromJsonThrows(j) == Tag(j) # "BridgeConfigJson"
bridgeConfigFromJson(j) == <<"BridgeConfig", Val(j)>>
privacySetsToJson(p) == <<"PrivacySetsJson", Val(p)>>
privacySetsFromJsonThrows(j) == Tag(j) # "PrivacySetsJson"
privacySetsFromJson(j) == <<"PrivacySets", Val(j)>>
getDefaultPrivacySets == <<"PrivacySets", "default">>

\* -------------------------------------------------------------------- JSON
\* What readJsonSync returns for what writeJsonSync wrote: JSON.stringify
\* omits the keys whose value is undefined and writes NaN as null.
RECURSIVE JsonValue(_)
JsonValue(v) ==
  CASE v = NaN -> Null
    [] v = Undefined -> Null
    [] Tag(v) = "array" -> Arr([i \in 1..Len(Val(v)) |-> JsonValue(Val(v)[i])])
    [] Tag(v) = "object" ->
         Obj([k \in {x \in DOMAIN Val(v) : Val(v)[x] # Undefined} |-> JsonValue(Val(v)[k])])
    [] OTHER -> v

writeJsonSync(o) == JsonValue(Obj(o))

\* ---------------------------------------------------------------- defaults
defaultStartupConfig ==
  [ port |-> Num(8081),
    rollupContractAddress |-> EthAddressZERO,
    permitHelperContractAddress |-> EthAddressZERO,
    priceFeedContractAddresses |-> Arr(<<>>),
    ethereumHost |-> Str(<<"h", "t", "t", "p", ":", "/", "/", "l", "o", "c", "a", "l", "h", "o", "s", "t", ":", "8", "5", "4", "6">>),
    ethereumPollInterval |-> Num(10000),
    proofGeneratorMode |-> Str(<<"n", "o", "r", "m", "a", "l">>),
    privateKey |-> BufferFrom(Str(
      <<"a", "c", "0", "9", "7", "4", "b", "e", "c", "3", "9", "a", "1", "7", "e", "3",
        "6", "b", "a", "4", "a", "6", "b", "4", "d", "2", "3", "8", "f", "f", "9", "4",
        "4", "b", "a", "c", "b", "4", "7", "8", "c", "b", "e", "d", "5", "e", "f", "c",
        "a", "e", "7", "8", "4", "d", "7", "b", "f", "4", "f", "2", "f", "f", "8", "0">>)),
    numInnerRollupTxs |-> Num(1),
    numOuterRollupProofs |-> Num(1),
    minConfirmation |-> Num(1),
    minConfirmationEHW |-> Num(12),
    apiPrefix |-> Str(<<>>),
    serverAuthToken |-> Str(<<"!", "c", "h", "a", "n", "g", "e", "m", "e", "#">>),
    typeOrmLogging |-> Bool(FALSE),
    proverless |-> Bool(FALSE),
    rollupCallDataLimit |-> Num(120 * 1024) ]

defaultRuntimeConfig ==
  [ acceptingTxs |-> Bool(TRUE),
    useKeyCache |-> Bool(FALSE),
    publishInterval |-> Num(0),
    flushAfterIdle |-> Num(0),
    gasLimit |-> Num(12000000),
    verificationGas |-> Num(500000),
    maxFeeGasPrice |-> Big(<<2, 5>> \o Rep(<<0>>, 10)),
    feeGasPriceMultiplier |-> Num(1),
    feeRoundUpSignificantFigures |-> Num(2),
    maxFeePerGas |-> Big(<<2, 5>> \o Rep(<<0>>, 10)),
    maxPriorityFeePerGas |-> Big(<<2, 5>> \o Rep(<<0>>, 8)),
    maxUnsettledTxs |-> Num(10000),
    defaultDeFiBatchSize |-> Num(5),
    bridgeConfigs |-> Arr(<<>>),
    feePayingAssetIds |-> Arr(<<Num(0)>>),
    privacySets |-> getDefaultPrivacySets,
    depositLimit |-> Num(10),
    blacklist |-> Arr(<<>>) ]

\* The fields of the interface StartupConfig.
StartupFields ==
  { "port", "dbUrl", "rollupContractAddress", "permitHelperContractAddress",
    "priceFeedContractAddresses", "ethereumHost", "ethereumPollInterval",
    "proofGeneratorMode", "privateKey", "numInnerRollupTxs", "numOuterRollupProofs",
    "apiPrefix", "serverAuthToken", "minConfirmation", "minConfirmationEHW",
    "typeOrmLogging", "proverless", "rollupCallDataLimit" }

\* --------------------------------------------------------- the environment
\* process.env.NAME : undefined when the variable is not set.
EnvGet(e, n) == IF n \in DOMAIN e THEN Str(e[n]) ELSE Undefined

\* NAME ? +NAME : undefined
EnvNumber(e, n) == IF Truthy(EnvGet(e, n)) THEN ToNumber(e[n]) ELSE Undefined
\* NAME ? EthAddress.fromString(NAME) : undefined
EnvAddress(e, n) == IF Truthy(EnvGet(e, n)) THEN EthAddressFromString(EnvGet(e, n)) ELSE Undefined
EnvAddressThrows(e, n) == Truthy(EnvGet(e, n)) /\ EthAddressFromStringThrows(EnvGet(e, n))
\* NAME ? NAME === 'true' : undefined
EnvBool(e, n) == IF Truthy(EnvGet(e, n)) THEN Bool(e[n] = <<"t", "r", "u", "e">>) ELSE Undefined

\* s.split(',') as an array of strings.
SplitArr(s) == Arr([i \in 1..Len(SplitComma(s)) |-> Str(SplitComma(s)[i])])

getStartupConfigEnvVarsThrows(e) ==
  \/ EnvAddressThrows(e, "ROLLUP_CONTRACT_ADDRESS")
  \/ EnvAddressThrows(e, "PERMIT_HELPER_CONTRACT_ADDRESS")
  \/ /\ Truthy(EnvGet(e, "PRICE_FEED_CONTRACT_ADDRESSES"))
     /\ MapFromStringThrows(SplitArr(e["PRICE_FEED_CONTRACT_ADDRESSES"]))

getStartupConfigEnvVars(e) ==
  DropUndefined(
    [ port |-> EnvNumber(e, "PORT"),
      dbUrl |-> EnvGet(e, "DB_URL"),
      rollupContractAddress |-> EnvAddress(e, "ROLLUP_CONTRACT_ADDRESS"),
      permitHelperContractAddress |-> EnvAddress(e, "PERMIT_HELPER_CONTRACT_ADDRESS"),
      priceFeedContractAddresses |->
        IF Truthy(EnvGet(e, "PRICE_FEED_CONTRACT_ADDRESSES"))
        THEN MapFromString(SplitArr(e["PRICE_FEED_CONTRACT_ADDRESSES"]))
        ELSE Undefined,
      ethereumHost |-> EnvGet(e, "ETHEREUM_HOST"),
      ethereumPollInterval |-> EnvNumber(e, "ETHEREUM_POLL_INTERVAL"),
      proofGeneratorMode |-> EnvGet(e, "PROOF_GENERATOR_MODE"),
      privateKey |->
        IF Truthy(EnvGet(e, "PRIVATE_KEY"))
        THEN BufferFrom(Str(Replace0x(e["PRIVATE_KEY"])))
        ELSE Undefined,
      numInnerRollupTxs |-> EnvNumber(e, "NUM_INNER_ROLLUP_TXS"),
      numOuterRollupProofs |-> EnvNumber(e, "NUM_OUTER_ROLLUP_PROOFS"),
      minConfirmation |-> EnvNumber(e, "MIN_CONFIRMATION"),
      minConfirmationEHW |-> EnvNumber(e, "MIN_CONFIRMATION_ESCAPE_HATCH_WINDOW"),
      apiPrefix |-> EnvGet(e, "API_PREFIX"),
      typeOrmLogging |-> EnvBool(e, "TYPEORM_LOGGING"),
      proverless |-> EnvBool(e, "PROVERLESS"),
      serverAuthToken |-> EnvGet(e, "SERVER_AUTH_TOKEN"),
      rollupCallDataLimit |->
        IF Truthy(EnvGet(e, "CALL_DATA_LIMIT_KB"))
        THEN (IF ToNumber(e["CALL_DATA_LIMIT_KB"]) = NaN
              THEN NaN
              ELSE Num(Val(ToNumber(e["CALL_DATA_LIMIT_KB"])) * 1024))
        ELSE Undefined ])

getRuntimeConfigEnvVarsThrows(e) ==
  \/ EnvAddressThrows(e, "FEE_DISTRIBUTOR_ADDRESS")

getRuntimeConfigEnvVars(e) ==
  DropUndefined(
    [ publishInterval |-> EnvNumber(e, "PUBLISH_INTERVAL"),
      flushAfterIdle |-> EnvNumber(e, "FLUSH_AFTER_IDLE"),
      feeGasPriceMultiplier |-> EnvNumber(e, "FEE_GAS_PRICE_MULTIPLIER"),
      defaultDeFiBatchSize |-> EnvNumber(e, "DEFAULT_DEFI_BATCH_SIZE"),
      feePayingAssetIds |->
        IF Truthy(EnvGet(e, "FEE_PAYING_ASSET_IDS"))
        THEN MapToNumber(SplitArr(e["FEE_PAYING_ASSET_IDS"]))
        ELSE Undefined,
      rollupBeneficiary |-> EnvAddress(e, "FEE_DISTRIBUTOR_ADDRESS") ])

\* ------------------------------------------------------ the snapshot file
\* readConfigFile throws when a conversion it makes throws: a property read
\* of undefined, .map on something that is no array, EthAddress.fromString,
\* Buffer.from or BigInt on a value they do not accept.
MapBridgeConfigFromJsonThrows(a) ==
  Tag(a) # "array" \/ \E x \in Range(Val(a)) : bridgeConfigFromJsonThrows(x)
MapBridgeConfigFromJson(a) == Arr([i \in 1..Len(Val(a)) |-> bridgeConfigFromJson(Val(a)[i])])
MapBridgeConfigToJson(a) == Arr([i \in 1..Len(Val(a)) |-> bridgeConfigToJson(Val(a)[i])])

readConfigFileThrows(conf) ==
  LET rc == Get(conf, "runtimeConfig") IN
  \/ EthAddressFromStringThrows(Get(conf, "rollupContractAddress"))
  \/ /\ Truthy(Get(conf, "permitHelperContractAddress"))
     /\ EthAddressFromStringThrows(Get(conf, "permitHelperContractAddress"))
  \/ MapFromStringThrows(Get(conf, "priceFeedContractAddresses"))
  \/ BufferFromThrows(Get(conf, "privateKey"))
  \/ Tag(rc) # "object"
  \/ /\ Tag(rc) = "object"
     /\ \/ BigIntThrows(Get(Val(rc), "maxFeeGasPrice"))
        \/ BigIntThrows(Get(Val(rc), "maxFeePerGas"))
        \/ BigIntThrows(Get(Val(rc), "maxPriorityFeePerGas"))
        \/ MapBridgeConfigFromJsonThrows(Get(Val(rc), "bridgeConfigs"))
        \/ privacySetsFromJsonThrows(Get(Val(rc), "privacySets"))
        \/ /\ Truthy(Get(Val(rc), "rollupBeneficiary"))
           /\ EthAddressFromStringThrows(Get(Val(rc), "rollupBeneficiary"))
        \/ /\ Truthy(Get(Val(rc), "blacklist"))
           /\ MapFromStringThrows(Get(Val(rc), "blacklist"))

readConfigFileResult(conf) ==
  LET rc == Val(conf["runtimeConfig"]) IN
  Spread(conf,
    [ rollupContractAddress |-> EthAddressFromString(conf["rollupContractAddress"]),
      permitHelperContractAddress |->
        IF Truthy(Get(conf, "permitHelperContractAddress"))
        THEN EthAddressFromString(conf["permitHelperContractAddress"])
        ELSE Undefined,
      priceFeedContractAddresses |->
        MapFromString(conf["priceFeedContractAddresses"]),
      privateKey |-> BufferFrom(conf["privateKey"]),
      runtimeConfig |-> Obj(Spread(rc,
        [ maxFeeGasPrice |-> BigInt(rc["maxFeeGasPrice"]),
          maxFeePerGas |-> BigInt(rc["maxFeePerGas"]),
          maxPriorityFeePerGas |-> BigInt(rc["maxPriorityFeePerGas"]),
          bridgeConfigs |-> MapBridgeConfigFromJson(rc["bridgeConfigs"]),
          privacySets |-> privacySetsFromJson(rc["privacySets"]),
          rollupBeneficiary |->
            IF Truthy(Get(rc, "rollupBeneficiary"))
            THEN EthAddressFromString(rc["rollupBeneficiary"])
            ELSE Undefined,
          blacklist |->
            IF Truthy(Get(rc, "blacklist"))
            THEN MapFromString(rc["blacklist"])
            ELSE Arr(<<>>) ])) ])

Thrown == <<"throw">>

\* Mutant: a document without rollupContractAddress read as one with the
\* zero address.
readConfigFileDefaultingAddress(conf) ==
  LET filled == IF "rollupContractAddress" \in DOMAIN conf
                THEN conf
                ELSE Spread(conf, [rollupContractAddress |-> EthAddressToString(EthAddressZERO)])
  IN IF readConfigFileThrows(filled) THEN Thrown ELSE Obj(readConfigFileResult(filled))

\* readConfigFile(path) on the document conf: Thrown, or Obj(the ConfVars).
readConfigFile(conf) ==
  IF readConfigFileThrows(conf) THEN Thrown ELSE Obj(readConfigFileResult(conf))

\* Mutant: the document without acceptingTxs forced to true.
writeConfigFileKeepingAcceptingTxs(conf) ==
  LET rc == Val(conf["runtimeConfig"]) IN
  writeJsonSync(Spread(conf,
    [ rollupContractAddress |-> EthAddressToString(conf["rollupContractAddress"]),
      permitHelperContractAddress |->
        IF Truthy(Get(conf, "permitHelperContractAddress"))
        THEN EthAddressToString(conf["permitHelperContractAddress"])
        ELSE Undefined,
      priceFeedContractAddresses |->
        MapToString(conf["priceFeedContractAddresses"]),
      privateKey |-> Str(HexEncode(Val(conf["privateKey"]))),
      runtimeConfig |-> Obj(Spread(rc,
        [ maxFeeGasPrice |-> BigIntToString(rc["maxFeeGasPrice"]),
          maxFeePerGas |-> BigIntToString(rc["maxFeePerGas"]),
          maxPriorityFeePerGas |-> BigIntToString(rc["maxPriorityFeePerGas"]),
          bridgeConfigs |-> MapBridgeConfigToJson(rc["bridgeConfigs"]),
          privacySets |-> privacySetsToJson(rc["privacySets"]),
          rollupBeneficiary |->
            IF Truthy(Get(rc, "rollupBeneficiary"))
            THEN EthAddressToString(rc["rollupBeneficiary"])
            ELSE Undefined,
          blacklist |->
            IF Truthy(Get(rc, "blacklist"))
            THEN MapToString(rc["blacklist"])
            ELSE Arr(<<>>) ])) ]))

\* The document writeConfigFile leaves at the path.
writeConfigFile(conf) ==
  LET rc == Val(conf["runtimeConfig"]) IN
  writeJsonSync(Spread(conf,
    [ rollupContractAddress |-> EthAddressToString(conf["rollupContractAddress"]),
      permitHelperContractAddress |->
        IF Truthy(Get(conf, "permitHelperContractAddress"))
        THEN EthAddressToString(conf["permitHelperContractAddress"])
        ELSE Undefined,
      priceFeedContractAddresses |->
        MapToString(conf["priceFeedContractAddresses"]),
      privateKey |-> Str(HexEncode(Val(conf["privateKey"]))),
      runtimeConfig |-> Obj(Spread(rc,
        [ acceptingTxs |-> Bool(TRUE),
          maxFeeGasPrice |-> BigIntToString(rc["maxFeeGasPrice"]),
          maxFeePerGas |-> BigIntToString(rc["maxFeePerGas"]),
          maxPriorityFeePerGas |-> BigIntToString(rc["maxPriorityFeePerGas"]),
          bridgeConfigs |-> MapBridgeConfigToJson(rc["bridgeConfigs"]),
          privacySets |-> privacySetsToJson(rc["privacySets"]),
          rollupBeneficiary |->
            IF Truthy(Get(rc, "rollupBeneficiary"))
            THEN EthAddressToString(rc["rollupBeneficiary"])
            ELSE Undefined,
          blacklist |->
            IF Truthy(Get(rc, "blacklist"))
            THEN MapToString(rc["blacklist"])
            ELSE Arr(<<>>) ])) ]))

\* ---------------------------------------------------------- the constructor
\* mkdirpSync(dirname(confPath)) is taken to succeed: the directory of the
\* snapshot can be created.
\* No file at the path (pathExistsSync is false).
Absent == <<"absent">>

\* The constructor throws, before it writes anything, when reading the
\* environment throws or the file exists and reading it throws.
constructorThrows(e, file) ==
  \/ getStartupConfigEnvVarsThrows(e)
  \/ getRuntimeConfigEnvVarsThrows(e)
  \/ /\ file # Absent
     /\ (Tag(file) # "object" \/ readConfigFile(Val(file)) = Thrown)

\* Mutant: the addresses compared as objects (`!==`), which no two are.
constructorRollupContractChangedByReference(e, file) ==
  /\ file # Absent
  /\ Truthy(Get(getStartupConfigEnvVars(e), "rollupContractAddress"))

constructorRollupContractChanged(e, file) ==
  /\ file # Absent
  /\ LET rollupContractAddress == Get(getStartupConfigEnvVars(e), "rollupContractAddress")
         saved == Val(readConfigFile(Val(file)))
     IN /\ Truthy(rollupContractAddress)
        /\ ~EthAddressEquals(rollupContractAddress, saved["rollupContractAddress"])

\* Mutant: the runtime fields merged in the startup order, environment last.
constructorConfVarsEnvOverSaved(e, file) ==
  LET startupConfigEnvVars == getStartupConfigEnvVars(e)
      runtimeConfigEnvVars == getRuntimeConfigEnvVars(e)
  IN IF file # Absent
     THEN LET saved == Val(readConfigFile(Val(file)))
              savedRuntimeConfig == Val(saved["runtimeConfig"])
              savedStartupConfig == Without(saved, "runtimeConfig")
          IN Spread(Spread(Spread(defaultStartupConfig, savedStartupConfig), startupConfigEnvVars),
                    [runtimeConfig |->
                       Obj(Spread(Spread(defaultRuntimeConfig, savedRuntimeConfig),
                                  runtimeConfigEnvVars))])
     ELSE Spread(Spread(defaultStartupConfig, startupConfigEnvVars),
                 [runtimeConfig |-> Obj(Spread(defaultRuntimeConfig, runtimeConfigEnvVars))])

\* Mutant: the startup fields merged in the runtime order, the snapshot last.
constructorConfVarsSavedOverEnv(e, file) ==
  LET startupConfigEnvVars == getStartupConfigEnvVars(e)
      runtimeConfigEnvVars == getRuntimeConfigEnvVars(e)
  IN IF file # Absent
     THEN LET saved == Val(readConfigFile(Val(file)))
              savedRuntimeConfig == Val(saved["runtimeConfig"])
              savedStartupConfig == Without(saved, "runtimeConfig")
          IN Spread(Spread(Spread(defaultStartupConfig, startupConfigEnvVars), savedStartupConfig),
                    [runtimeConfig |->
                       Obj(Spread(Spread(defaultRuntimeConfig, runtimeConfigEnvVars),
                                  savedRuntimeConfig))])
     ELSE Spread(Spread(defaultStartupConfig, startupConfigEnvVars),
                 [runtimeConfig |-> Obj(Spread(defaultRuntimeConfig, runtimeConfigEnvVars))])

constructorConfVars(e, file) ==
  LET startupConfigEnvVars == getStartupConfigEnvVars(e)
      runtimeConfigEnvVars == getRuntimeConfigEnvVars(e)
  IN IF file # Absent
     THEN LET saved == Val(readConfigFile(Val(file)))
              savedRuntimeConfig == Val(saved["runtimeConfig"])
              savedStartupConfig == Without(saved, "runtimeConfig")
          IN Spread(Spread(Spread(defaultStartupConfig, savedStartupConfig), startupConfigEnvVars),
                    [runtimeConfig |->
                       Obj(Spread(Spread(defaultRuntimeConfig, runtimeConfigEnvVars),
                                  savedRuntimeConfig))])
     ELSE Spread(Spread(defaultStartupConfig, startupConfigEnvVars),
                 [runtimeConfig |-> Obj(Spread(defaultRuntimeConfig, runtimeConfigEnvVars))])

\* Mutant: the partial merged over the defaults, not over the live runtimeConfig.
saveRuntimeConfigOverDefaults(conf, runtimeConfig) ==
  Spread(conf, [runtimeConfig |-> Obj(Spread(defaultRuntimeConfig, runtimeConfig))])

\* The live ConfVars saveRuntimeConfig leaves.
saveRuntimeConfig(conf, runtimeConfig) ==
  LET prevRuntimeConfig == Val(conf["runtimeConfig"]) IN
  Spread(conf, [runtimeConfig |-> Obj(Spread(prevRuntimeConfig, runtimeConfig))])

\* ------------------------------------------------------------------ inputs
\* Address strings: AddrStrA and AddrStrAUpper spell the same address.
AddrStrA == <<"0", "x">> \o Rep(<<"a">>, 2 * AddressBytes)
AddrStrAUpper == <<"0", "x">> \o Rep(<<"A">>, 2 * AddressBytes)
AddrStrB == <<"0", "x">> \o Rep(<<"b", "1">>, AddressBytes)
AddrStrC == Rep(<<"0", "C">>, AddressBytes)
BadAddrStr == <<"0", "x", "z", "z">>
BadNumStr == <<"a", "b", "c">>

\* The environments of a deployment.  A variable changed since the snapshot
\* was written is an environment that differs from the one Snapshot was
\* written under (PORT=9000 and ROLLUP_CONTRACT_ADDRESS=AddrStrA).
ValidEnvs ==
  { <<>>,
    [PORT |-> <<"7", "0", "0", "0">>, PUBLISH_INTERVAL |-> <<"9">>],
    [ROLLUP_CONTRACT_ADDRESS |-> AddrStrA],
    [ROLLUP_CONTRACT_ADDRESS |-> AddrStrAUpper, FEE_DISTRIBUTOR_ADDRESS |-> AddrStrB],
    [ROLLUP_CONTRACT_ADDRESS |-> AddrStrB, PERMIT_HELPER_CONTRACT_ADDRESS |-> AddrStrC,
     PRICE_FEED_CONTRACT_ADDRESSES |-> AddrStrA \o <<",">> \o AddrStrC,
     PRIVATE_KEY |-> <<"0", "x", "0", "1", "F", "f">>],
    [DB_URL |-> <<"p", "g">>, ETHEREUM_HOST |-> <<"h">>, PROOF_GENERATOR_MODE |-> <<"l", "o", "c", "a", "l">>,
     API_PREFIX |-> <<"/", "v", "2">>, SERVER_AUTH_TOKEN |-> <<"s">>, PROVERLESS |-> <<"t", "r", "u", "e">>,
     TYPEORM_LOGGING |-> <<"1">>, CALL_DATA_LIMIT_KB |-> <<"2">>],
    [ETHEREUM_POLL_INTERVAL |-> <<"5", "0", "0">>, NUM_INNER_ROLLUP_TXS |-> <<"3">>,
     NUM_OUTER_ROLLUP_PROOFS |-> <<"2">>, MIN_CONFIRMATION |-> <<"3">>,
     MIN_CONFIRMATION_ESCAPE_HATCH_WINDOW |-> <<"6">>, FLUSH_AFTER_IDLE |-> <<"4">>,
     FEE_GAS_PRICE_MULTIPLIER |-> <<"2">>, DEFAULT_DEFI_BATCH_SIZE |-> <<"8">>,
     FEE_PAYING_ASSET_IDS |-> <<"0", ",", "1">>],
    [PORT |-> <<>>, ROLLUP_CONTRACT_ADDRESS |-> <<>>, FEE_DISTRIBUTOR_ADDRESS |-> <<>>] }

\* The environment variables read with unary plus, and those read with
\* EthAddress.fromString.
NumberEnvNames ==
  { "PORT", "ETHEREUM_POLL_INTERVAL", "NUM_INNER_ROLLUP_TXS", "NUM_OUTER_ROLLUP_PROOFS",
    "MIN_CONFIRMATION", "MIN_CONFIRMATION_ESCAPE_HATCH_WINDOW", "CALL_DATA_LIMIT_KB",
    "PUBLISH_INTERVAL", "FLUSH_AFTER_IDLE", "FEE_GAS_PRICE_MULTIPLIER",
    "DEFAULT_DEFI_BATCH_SIZE", "FEE_PAYING_ASSET_IDS" }
AddressEnvNames ==
  { "ROLLUP_CONTRACT_ADDRESS", "PERMIT_HELPER_CONTRACT_ADDRESS",
    "PRICE_FEED_CONTRACT_ADDRESSES", "FEE_DISTRIBUTOR_ADDRESS" }

\* Environments with a malformed value: one number variable, every number
\* variable, or one address variable.
MalformedEnvs ==
  { [n \in {"PORT"} |-> BadNumStr], [n \in {"PUBLISH_INTERVAL"} |-> BadNumStr],
    [n \in NumberEnvNames |-> BadNumStr] }
  \cup { [n \in {a} |-> BadAddrStr] : a \in AddressEnvNames }

Envs == ValidEnvs \cup MalformedEnvs

\* The arguments of saveRuntimeConfig.
Partials ==
  { [flushAfterIdle |-> Num(30)],
    [acceptingTxs |-> Bool(FALSE)],
    [publishInterval |-> Num(7),
     maxFeeGasPrice |-> Big(<<1, 8, 4, 4, 6, 7, 4, 4, 0, 7, 3, 7, 0, 9, 5, 5, 1, 6, 1, 7>>)],
    [rollupBeneficiary |-> EthAddressFromString(Str(AddrStrC)),
     blacklist |-> Arr(<<EthAddressFromString(Str(AddrStrB))>>)],
    [bridgeConfigs |-> Arr(<<<<"BridgeConfig", "b1">>>>), privacySets |-> <<"PrivacySets", "p1">>] }

\* What may be at the path when the first process starts: nothing; the
\* snapshot of an earlier run (port 9000, publishInterval 5); a snapshot of
\* an older version, without the fields added since; a snapshot that lost
\* its rollupContractAddress.
SavedConfVars ==
  Spread(Spread(defaultStartupConfig,
                [port |-> Num(9000), rollupContractAddress |-> EthAddressFromString(Str(AddrStrA))]),
         [runtimeConfig |-> Obj(Spread(defaultRuntimeConfig, [publishInterval |-> Num(5)]))])
Snapshot == writeConfigFile(SavedConfVars)
LegacySnapshot ==
  Obj(Spread(Without(Without(Val(Snapshot), "permitHelperContractAddress"), "rollupCallDataLimit"),
             [runtimeConfig |->
                Obj(Without(Without(Val(Val(Snapshot)["runtimeConfig"]), "blacklist"), "depositLimit"))]))
CorruptSnapshot == Obj(Without(Val(Snapshot), "rollupContractAddress"))
InitFiles == {Absent, Snapshot, LegacySnapshot, CorruptSnapshot}

\* ---------------------------------------------------------------- the state
VARIABLES
  file,                  \* the document at confPath, or Absent
  confVars,              \* this.confVars of the live Configurator: Obj(..), or Undefined
  rollupContractChanged, \* this.rollupContractChanged
  env,                   \* process.env, the same for every process of a behaviour
  pc,                    \* "start", "constructed", "saved", or "failed" (the constructor threw)
  found,                 \* history: the document the last constructor found at confPath
  arg,                   \* history: the argument of the last saveRuntimeConfig, or Undefined
  repeat,                \* history: the last two operations were saveRuntimeConfig with the same argument
  prev,                  \* history: pc before the last operation
  restarts,              \* constructions so far
  saves,                 \* saveRuntimeConfig calls so far
  flagged                \* history: constructions so far that set rollupContractChanged

vars == <<file, confVars, rollupContractChanged, env, pc, found, arg, repeat, prev, restarts, saves, flagged>>

Init ==
  /\ file \in InitFiles
  /\ confVars = Undefined
  /\ rollupContractChanged = FALSE
  /\ env \in Envs
  /\ pc = "start"
  /\ found = Absent
  /\ arg = Undefined
  /\ repeat = FALSE
  /\ prev = "start"
  /\ restarts = 0
  /\ saves = 0
  /\ flagged = 0

\* A process starts and runs `new Configurator(confPath)`.
Construct ==
  /\ restarts < MaxRestarts
  /\ restarts' = restarts + 1
  /\ found' = file
  /\ repeat' = FALSE
  /\ prev' = pc
  /\ IF constructorThrows(env, file)
     THEN /\ pc' = "failed"
          /\ confVars' = Undefined
          /\ rollupContractChanged' = FALSE
          /\ file' = file
          /\ flagged' = flagged
     ELSE LET resolved == constructorConfVars(env, file)
          IN /\ pc' = "constructed"
             /\ confVars' = Obj(resolved)
             /\ rollupContractChanged' = constructorRollupContractChanged(env, file)
             /\ file' = writeConfigFile(resolved)
             /\ flagged' = IF constructorRollupContractChanged(env, file) THEN flagged + 1 ELSE flagged
  /\ UNCHANGED <<env, arg, saves>>

\* The live Configurator's saveRuntimeConfig(p).
SaveRuntimeConfig ==
  \E p \in Partials :
    /\ pc \in {"constructed", "saved"}
    /\ saves < MaxSaves
    /\ saves' = saves + 1
    /\ arg' = Obj(p)
    /\ repeat' = (pc = "saved" /\ arg = Obj(p))
    /\ prev' = pc
    /\ pc' = "saved"
    /\ LET merged == saveRuntimeConfig(Val(confVars), p)
       IN /\ confVars' = Obj(merged)
          /\ file' = writeConfigFile(merged)
    /\ UNCHANGED <<rollupContractChanged, env, found, restarts, flagged>>

Next == Construct \/ SaveRuntimeConfig

Spec == Init /\ [][Next]_vars

\* ------------------------------------------------------------- properties
\* The live ConfVars' startup field f and runtime field f.
LiveStartup(f) == Get(Val(confVars), f)
LiveRuntime(f) == Get(Val(Val(confVars)["runtimeConfig"]), f)

\* The last constructor found a snapshot, and the snapshot (its
\* runtimeConfig) has a value for f; the value as loaded.
Loaded == Val(readConfigFile(Val(found)))
SnapshotHasStartup(f) == found # Absent /\ f \in DOMAIN Val(found)
SnapshotHasRuntime(f) == found # Absent /\ f \in DOMAIN Val(Val(found)["runtimeConfig"])

RuntimeFields == (DOMAIN defaultRuntimeConfig) \cup {"rollupBeneficiary"}

\* C1: after a construction every StartupConfig field has the environment's
\* override if the environment supplies one, otherwise the snapshot's value
\* if a snapshot was found with one, otherwise the default.
C1_StartupPrecedence ==
  pc = "constructed" =>
    \A f \in StartupFields :
      LiveStartup(f) =
        IF f \in DOMAIN getStartupConfigEnvVars(env) THEN getStartupConfigEnvVars(env)[f]
        ELSE IF SnapshotHasStartup(f) THEN Loaded[f]
        ELSE Get(defaultStartupConfig, f)

\* C2: after a construction every RuntimeConfig field has the snapshot's
\* value if a snapshot was found with one, otherwise the environment's
\* override if the environment supplies one, otherwise the default.
C2_RuntimePrecedence ==
  pc = "constructed" =>
    \A f \in RuntimeFields :
      LiveRuntime(f) =
        IF SnapshotHasRuntime(f) THEN Val(Loaded["runtimeConfig"])[f]
        ELSE IF f \in DOMAIN getRuntimeConfigEnvVars(env) THEN getRuntimeConfigEnvVars(env)[f]
        ELSE Get(defaultRuntimeConfig, f)

\* The bytes an address string spells, whatever the case of its digits.
AddressOf(s) == HexDecode(StripPrefix0x(s))
EnvSupplies(n) == n \in DOMAIN env /\ env[n] # <<>>

\* C3: after a construction the critical-change flag is set exactly when a
\* snapshot was found, the environment supplies a rollup contract address,
\* and that address is not the snapshot's.
C3_CriticalChange ==
  pc = "constructed" =>
    (rollupContractChanged <=>
       /\ found # Absent
       /\ EnvSupplies("ROLLUP_CONTRACT_ADDRESS")
       /\ AddressOf(env["ROLLUP_CONTRACT_ADDRESS"])
            # AddressOf(Val(Val(found)["rollupContractAddress"])))

\* A construction that found the address of the snapshot changed.
C3_Witness ==
  /\ pc = "constructed"
  /\ rollupContractChanged
  /\ found # Absent
  /\ EnvSupplies("ROLLUP_CONTRACT_ADDRESS")

\* The acceptingTxs of the document at the path.
FileAcceptingTxs == Get(Val(Get(Val(file), "runtimeConfig")), "acceptingTxs")
Live == pc \in {"constructed", "saved"}

\* C4: whenever a construction or a saveRuntimeConfig has written the
\* snapshot, the snapshot has acceptingTxs = true, and a construction that
\* reloads such a snapshot resolves acceptingTxs = true.
C4_SnapshotAcceptsTxs ==
  /\ (Live \/ (pc = "failed" /\ prev \in {"constructed", "saved"})) => FileAcceptingTxs = Bool(TRUE)
  /\ (pc = "constructed" /\ prev \in {"constructed", "saved"}) => LiveRuntime("acceptingTxs") = Bool(TRUE)

\* acceptingTxs = false was saved, and the snapshot was then reloaded.
C4_Witness ==
  /\ pc = "constructed"
  /\ prev = "saved"
  /\ arg = Obj([acceptingTxs |-> Bool(FALSE)])
  /\ LiveRuntime("acceptingTxs") = Bool(TRUE)

\* A ConfVars whose fields hold values of their declared types: no number
\* is NaN or null, and only rollupBeneficiary may be undefined.
ValidConfVars(v) ==
  LET rc == Val(v["runtimeConfig"]) IN
  /\ \A f \in (DOMAIN v) \ {"runtimeConfig"} : v[f] \notin {NaN, Null, Undefined}
  /\ \A f \in DOMAIN rc : rc[f] \notin {NaN, Null} /\ (f # "rollupBeneficiary" => rc[f] # Undefined)
  /\ \A x \in Range(Val(rc["feePayingAssetIds"])) : x \notin {NaN, Null}

\* Objects a and b agree on every field outside X, a missing field being undefined.
SameExcept(a, b, X) == \A f \in ((DOMAIN a) \cup (DOMAIN b)) \ X : Get(a, f) = Get(b, f)

\* load(save(v)) for the live ConfVars v.
Reloaded == readConfigFile(Val(writeConfigFile(Val(confVars))))

\* C5 as stated: for a valid live ConfVars v, load(save(v)) equals v field
\* for field, in the startup fields and in the runtime fields.
C5_RoundTripAllFields ==
  (Live /\ ValidConfVars(Val(confVars))) =>
    /\ Reloaded # Thrown
    /\ SameExcept(Val(Reloaded), Val(confVars), {"runtimeConfig"})
    /\ SameExcept(Val(Val(Reloaded)["runtimeConfig"]), Val(Val(confVars)["runtimeConfig"]), {})

\* C5 as amended: for a valid live ConfVars v, load(save(v)) equals v field
\* for field except in runtimeConfig.acceptingTxs, which loads as true.
C5_RoundTrip ==
  (Live /\ ValidConfVars(Val(confVars))) =>
    /\ Reloaded # Thrown
    /\ SameExcept(Val(Reloaded), Val(confVars), {"runtimeConfig"})
    /\ SameExcept(Val(Val(Reloaded)["runtimeConfig"]), Val(Val(confVars)["runtimeConfig"]),
                  {"acceptingTxs"})
    /\ Val(Val(Reloaded)["runtimeConfig"])["acceptingTxs"] = Bool(TRUE)

\* A valid live ConfVars with acceptingTxs = false, a bigint beyond 2^64, a
\* private key and addresses from the environment.
C5_Witness ==
  /\ Live
  /\ ValidConfVars(Val(confVars))
  /\ LiveRuntime("acceptingTxs") = Bool(FALSE)
  /\ LiveRuntime("maxFeeGasPrice") # defaultRuntimeConfig["maxFeeGasPrice"]
  /\ LiveStartup("privateKey") # defaultStartupConfig["privateKey"]
  /\ LiveStartup("priceFeedContractAddresses") # Arr(<<>>)

\* C6 as stated: after saveRuntimeConfig(p) and then a construction, every
\* field of p has p's value, whatever the environment of the construction.
C6_SavedSurvivesRestartAllFields ==
  (pc = "constructed" /\ prev = "saved") =>
    \A f \in DOMAIN Val(arg) : LiveRuntime(f) = Val(arg)[f]

\* C6 as amended: after saveRuntimeConfig(p) and then a construction, every
\* field of p other than acceptingTxs has p's value, whatever the
\* environment of the construction, and acceptingTxs is true.
C6_SavedSurvivesRestart ==
  (pc = "constructed" /\ prev = "saved") =>
    /\ \A f \in (DOMAIN Val(arg)) \ {"acceptingTxs"} : LiveRuntime(f) = Val(arg)[f]
    /\ LiveRuntime("acceptingTxs") = Bool(TRUE)

\* publishInterval = 7 was saved and the process restarted with
\* PUBLISH_INTERVAL=9.
C6_Witness ==
  /\ pc = "constructed"
  /\ prev = "saved"
  /\ "publishInterval" \in DOMAIN Val(arg)
  /\ EnvSupplies("PUBLISH_INTERVAL")
  /\ getRuntimeConfigEnvVars(env)["publishInterval"] # Val(arg)["publishInterval"]
  /\ LiveRuntime("publishInterval") = Val(arg)["publishInterval"]

\* C7: a saveRuntimeConfig(p) step changes no startup field and no runtime
\* field outside p, and a second saveRuntimeConfig(p) right after the first
\* changes neither the live ConfVars nor the snapshot.
C7_SaveIdempotentAndFramed ==
  [][ (pc' = "saved" /\ saves' = saves + 1) =>
        /\ SameExcept(Val(confVars'), Val(confVars), {"runtimeConfig"})
        /\ SameExcept(Val(Val(confVars')["runtimeConfig"]), Val(Val(confVars)["runtimeConfig"]),
                      DOMAIN Val(arg'))
        /\ \A f \in DOMAIN Val(arg') : Get(Val(Val(confVars')["runtimeConfig"]), f) = Val(arg')[f]
        /\ repeat' => (confVars' = confVars /\ file' = file) ]_vars

\* saveRuntimeConfig({flushAfterIdle: 30}) was called twice in a row.
C7_Witness ==
  /\ pc = "saved"
  /\ repeat
  /\ arg = Obj([flushAfterIdle |-> Num(30)])
  /\ LiveRuntime("flushAfterIdle") = Num(30)

\* C8: a construction that finds a snapshot without rollupContractAddress
\* throws: no Configurator is produced and the snapshot stays as found.
C8_CorruptSnapshotFails ==
  (restarts > 0 /\ found # Absent /\ "rollupContractAddress" \notin DOMAIN Val(found)) =>
    /\ pc = "failed"
    /\ confVars = Undefined
    /\ file = found

\* Such a construction, in an environment that supplies the address.
C8_Witness ==
  /\ pc = "failed"
  /\ found # Absent
  /\ "rollupContractAddress" \notin DOMAIN Val(found)
  /\ EnvSupplies("ROLLUP_CONTRACT_ADDRESS")

\* The environment sets a number variable to a string that is no number, or
\* an address variable to a string that is no address (list).
MalformedNumber(n) == EnvSupplies(n) /\ \E x \in Range(SplitComma(env[n])) : ToNumber(x) = NaN
MalformedAddress(n) == EnvSupplies(n) /\ \E x \in Range(SplitComma(env[n])) : ~IsAddress(x)

\* C9: a construction in an environment with a malformed number or address
\* throws: no Configurator is produced and the snapshot stays as found.
C9_MalformedEnvFails ==
  (/\ restarts > 0
   /\ \/ \E n \in NumberEnvNames : MalformedNumber(n)
      \/ \E n \in AddressEnvNames : MalformedAddress(n)) =>
    /\ pc = "failed"
    /\ file = found

\* C10: while a Configurator is live, every StartupConfig field that has a
\* default and every RuntimeConfig field that has one is defined.
C10_FullyPopulated ==
  Live =>
    /\ \A f \in DOMAIN defaultStartupConfig : LiveStartup(f) # Undefined
    /\ \A f \in DOMAIN defaultRuntimeConfig : LiveRuntime(f) # Undefined

\* The address the snapshot at the path holds.
FileAddress == AddressOf(Val(Val(file)["rollupContractAddress"]))

\* C11: the flag is reported by one construction per address change: a
\* construction that sets it leaves the environment's address in the
\* snapshot, the construction after it in the same environment, with or
\* without saveRuntimeConfig calls in between, does not set it, and no
\* second construction of the behaviour does.
C11_FlagReportedOnce ==
  /\ flagged <= 1
  /\ (pc = "constructed" /\ rollupContractChanged) =>
       FileAddress = AddressOf(env["ROLLUP_CONTRACT_ADDRESS"])
  /\ (pc = "constructed" /\ prev \in {"constructed", "saved"}) => ~rollupContractChanged

\* A construction set the flag, and the next one, in the same environment,
\* found the environment's address in the snapshot and did not.
C11_Witness ==
  /\ pc = "constructed"
  /\ prev \in {"constructed", "saved"}
  /\ flagged = 1
  /\ ~rollupContractChanged
  /\ EnvSupplies("ROLLUP_CONTRACT_ADDRESS")
  /\ AddressOf(Val(Val(found)["rollupContractAddress"])) = AddressOf(env["ROLLUP_CONTRACT_ADDRESS"])

====
